---- MODULE Spec2Model ----
(***************************************************************************)
(* Face-frame cropping of openwillis (measures/video/util/crop_utils.py):  *)
(* the geometry helpers as operators and create_cropped_video as a state   *)
(* machine over one call.                                                  *)
(*                                                                         *)
(* An image is [shape, px]: shape is the numpy shape <<rows, cols, 3>> and *)
(* px maps <<r, c>> (0-based) to a pixel.  A pixel is the integer code of  *)
(* its 3-channel value; 0 codes (0, 0, 0).                                 *)
(* A call that may raise yields [ok |-> TRUE, val |-> v] or                *)
(* [ok |-> FALSE, exc |-> name].                                           *)
(***************************************************************************)
EXTENDS Integers, Sequences, FiniteSets, TLC

\* ------------------------------------------------------------ bounds
\* frames of the modelled video are FrameH rows by FrameW columns
FrameW == 3
FrameH == 2
\* a video holds 0..MaxFrames frames, a detection list 0..MaxDet entries
MaxFrames == 3
MaxDet == 2
\* bounding boxes of the video model: bb_y is 0 or MaxCoord, a side 0, 1 or MaxBoxDim
MaxCoord == 2
MaxBoxDim == 3
\* pixel codes of video frames are 1..MaxPix
MaxPix == 3
\* target sizes (frame_w, frame_h) go up to SizeW by SizeH
SizeW == 3
SizeH == 2
\* calculate_padding is applied to boxes with origin up to MaxPadX and width up to MaxPadW
MaxPadX == 10
MaxPadW == 100
\* center_in_frame is applied to images of up to MaxImgH rows and MaxImgW columns
MaxImgH == 2
MaxImgW == 3

\* ------------------------------------------------------------ python / numpy helpers
Min(a, b) == IF a < b THEN a ELSE b
Max(a, b) == IF a > b THEN a ELSE b

Ok(v) == [ok |-> TRUE, val |-> v]
Raise(e) == [ok |-> FALSE, exc |-> e]

\* int(num / den) for den > 0: truncation toward zero
IntTrunc(num, den) == IF num >= 0 THEN num \div den ELSE -((-num) \div den)

\* a slice bound i of a[i:...] on an axis of length n
PyIndex(i, n) == IF i < 0 THEN Max(i + n, 0) ELSE Min(i, n)

\* a[start:stop] on an axis of length n: first index and number of indices
PySlice(start, stop, n) ==
  LET s == PyIndex(start, n)
      e == PyIndex(stop, n)
  IN [lo |-> s, len |-> Max(e - s, 0)]

Grid(h, w) == (0 .. h - 1) \X (0 .. w - 1)

MkImage(h, w, px) == [shape |-> <<h, w, 3>>, px |-> px]

\* np.full((h, w, 3), color)
NpFull(h, w, color) == MkImage(h, w, [rc \in Grid(h, w) |-> color])

\* np.zeros_like(frame)
NpZerosLike(frame) == NpFull(frame.shape[1], frame.shape[2], 0)

\* np.array([]): shape (0,), no element
NpEmptyArray == [shape |-> <<0>>, px |-> [rc \in {} |-> 0]]

RECURSIVE SeqProduct(_)
SeqProduct(s) == IF s = << >> THEN 1 ELSE Head(s) * SeqProduct(Tail(s))

\* ndarray.size
ArraySize(a) == SeqProduct(a.shape)

\* the empty detection entry {} and a bounding-box entry
EmptyDict == [k \in {} |-> 0]
Box(x, y, w, h) == [bb_x |-> x, bb_y |-> y, bb_w |-> w, bb_h |-> h]

\* ------------------------------------------------------------ crop_img
crop_img(img, bb_dict) ==
  LET x == bb_dict.bb_x
      y == bb_dict.bb_y
      w == bb_dict.bb_w
      h == bb_dict.bb_h
      rows == PySlice(y, y + h, img.shape[1])
      cols == PySlice(x, x + w, img.shape[2])
  IN MkImage(rows.len, cols.len,
             [rc \in Grid(rows.len, cols.len) |->
                img.px[<<rows.lo + rc[1], cols.lo + rc[2]>>]])

\* ------------------------------------------------------------ calculate_padding
\* a build that forgets to clamp the padded origin at 0
calculate_padding_unclamped(bb_dict, padding_percent) ==
  LET padding_x == IntTrunc(bb_dict.bb_w * padding_percent[1], padding_percent[2])
      padding_y == IntTrunc(bb_dict.bb_h * padding_percent[1], padding_percent[2])
  IN [bb_x |-> bb_dict.bb_x - padding_x,
      bb_y |-> bb_dict.bb_y - padding_y,
      bb_w |-> bb_dict.bb_w + 2 * padding_x,
      bb_h |-> bb_dict.bb_h + 2 * padding_y]

\* a build that pads the size on one side only
calculate_padding_one_side(bb_dict, padding_percent) ==
  LET padding_x == IntTrunc(bb_dict.bb_w * padding_percent[1], padding_percent[2])
      padding_y == IntTrunc(bb_dict.bb_h * padding_percent[1], padding_percent[2])
  IN [bb_x |-> Max(0, bb_dict.bb_x - padding_x),
      bb_y |-> Max(0, bb_dict.bb_y - padding_y),
      bb_w |-> bb_dict.bb_w + padding_x,
      bb_h |-> bb_dict.bb_h + padding_y]

\* padding_percent is the rational <<num, den>>, den > 0
calculate_padding(bb_dict, padding_percent) ==
  LET x == bb_dict.bb_x
      y == bb_dict.bb_y
      w == bb_dict.bb_w
      h == bb_dict.bb_h
      padding_x == IntTrunc(w * padding_percent[1], padding_percent[2])
      padding_y == IntTrunc(h * padding_percent[1], padding_percent[2])
  IN [bb_x |-> Max(0, x - padding_x),
      bb_y |-> Max(0, y - padding_y),
      bb_w |-> w + 2 * padding_x,
      bb_h |-> h + 2 * padding_y]

\* ------------------------------------------------------------ cv2.resize
RECURSIVE SumPx(_, _)
SumPx(px, S) ==
  IF S = {} THEN 0
  ELSE LET rc == CHOOSE q \in S : TRUE IN px[rc] + SumPx(px, S \ {rc})

\* source indices that output index i covers when n indices shrink to m
AreaBox(i, n, m) ==
  LET lo == (i * n) \div m
      hi == Max(lo, ((i + 1) * n + m - 1) \div m - 1)
  IN lo .. Min(hi, n - 1)

\* cv2.resize(img, (new_w, new_h), interpolation=cv2.INTER_AREA): raises
\* cv2.error on an empty source or an empty target size; the result has
\* new_h rows and new_w columns, each pixel the rounded mean of the source
\* box it covers
Cv2Resize(img, new_w, new_h) ==
  LET h == img.shape[1]
      w == img.shape[2]
  IN IF h = 0 \/ w = 0 \/ new_w <= 0 \/ new_h <= 0
     THEN Raise("cv2.error")
     ELSE Ok(MkImage(new_h, new_w,
            [rc \in Grid(new_h, new_w) |->
               LET S == AreaBox(rc[1], h, new_h) \X AreaBox(rc[2], w, new_w)
                   n == Cardinality(S)
               IN (2 * SumPx(img.px, S) + n) \div (2 * n)]))

\* ------------------------------------------------------------ resize_to_fit
\* the target dimensions <<new_w, new_h>> of resize_to_fit, for h > 0 and
\* frame_h > 0: w / h > frame_w / frame_h is w * frame_h > frame_w * h
FitDims(w, h, frame_w, frame_h) ==
  IF w * frame_h > frame_w * h
  THEN <<frame_w, IntTrunc(frame_w * h, w)>>
  ELSE <<IntTrunc(frame_h * w, h), frame_h>>

resize_to_fit(img, frame_size) ==
  LET h == img.shape[1]
      w == img.shape[2]
      frame_w == frame_size[1]
      frame_h == frame_size[2]
  IN IF h = 0 \/ frame_h = 0
     THEN Raise("ZeroDivisionError")
     ELSE LET d == FitDims(w, h, frame_w, frame_h)
          IN Cv2Resize(img, d[1], d[2])

\* ------------------------------------------------------------ center_in_frame
\* frame[y0:y0+h, x0:x0+w] = src on a canvas filled with background_color;
\* numpy raises ValueError when src does not broadcast to the sliced region
AssignCentered(canvas_h, canvas_w, background_color, src, y0, x0) ==
  LET h == src.shape[1]
      w == src.shape[2]
      rows == PySlice(y0, y0 + h, canvas_h)
      cols == PySlice(x0, x0 + w, canvas_w)
  IN IF (h = rows.len \/ h = 1) /\ (w = cols.len \/ w = 1)
     THEN Ok(MkImage(canvas_h, canvas_w,
            [rc \in Grid(canvas_h, canvas_w) |->
               IF /\ rows.lo <= rc[1] /\ rc[1] < rows.lo + rows.len
                  /\ cols.lo <= rc[2] /\ rc[2] < cols.lo + cols.len
               THEN src.px[<<IF h = 1 THEN 0 ELSE rc[1] - rows.lo,
                             IF w = 1 THEN 0 ELSE rc[2] - cols.lo>>]
               ELSE background_color]))
     ELSE Raise("ValueError")

\* the condition under which center_in_frame resizes first
NeedsResize(w_padded, h_padded, frame_size) ==
  w_padded > frame_size[1] \/ h_padded > frame_size[2]

center_in_frame(cropped_img, frame_size, background_color) ==
  LET fitted == IF NeedsResize(cropped_img.shape[2], cropped_img.shape[1], frame_size)
                THEN resize_to_fit(cropped_img, frame_size)
                ELSE Ok(cropped_img)
  IN IF ~fitted.ok THEN fitted
     ELSE LET h_padded == fitted.val.shape[1]
              w_padded == fitted.val.shape[2]
              x_offset == (frame_size[1] - w_padded) \div 2
              y_offset == (frame_size[2] - h_padded) \div 2
          IN AssignCentered(frame_size[2], frame_size[1], background_color,
                            fitted.val, y_offset, x_offset)

\* ------------------------------------------------------------ crop_with_padding_and_center
\* the default padding_percent, 0.1
DefaultPaddingPercent == <<1, 10>>

crop_with_padding_and_center(img, bb_dict, padding_percent, frame_size, background_color) ==
  LET padded_bb_dict == calculate_padding(bb_dict, padding_percent)
      padded_crop == crop_img(img, padded_bb_dict)
  IN center_in_frame(padded_crop, frame_size, background_color)

\* ------------------------------------------------------------ blacken_outside_bounding_box
blacken_outside_bounding_box(frame, bb_dict) ==
  LET x == bb_dict.bb_x
      y == bb_dict.bb_y
      w == bb_dict.bb_w
      h == bb_dict.bb_h
      rows == PySlice(y, y + h, frame.shape[1])
      cols == PySlice(x, x + w, frame.shape[2])
  IN MkImage(frame.shape[1], frame.shape[2],
             [rc \in Grid(frame.shape[1], frame.shape[2]) |->
                IF /\ rows.lo <= rc[1] /\ rc[1] < rows.lo + rows.len
                   /\ cols.lo <= rc[2] /\ rc[2] < cols.lo + cols.len
                THEN frame.px[rc]
                ELSE 0])

\* ------------------------------------------------------------ create_cropped_frame
create_cropped_frame(frame, frame_dict, darken, default_size) ==
  IF darken
  THEN Ok(blacken_outside_bounding_box(frame, frame_dict))
  ELSE crop_with_padding_and_center(frame, frame_dict, DefaultPaddingPercent,
                                    default_size, 0)

\* ------------------------------------------------------------ create_face_frame
\* np.zeros(default_size + (3,)): the shape is (default_size[0], default_size[1], 3)
PlaceholderDefault(default_size) == NpFull(default_size[1], default_size[2], 0)

create_face_frame(frame_dict, frame, default_size, keep_original_timing, darken) ==
  IF DOMAIN frame_dict # {}
  THEN create_cropped_frame(frame, frame_dict, darken, default_size)
  ELSE IF keep_original_timing
       THEN IF darken
            THEN Ok(NpZerosLike(frame))
            ELSE Ok(PlaceholderDefault(default_size))
       ELSE Ok(NpEmptyArray)

\* ------------------------------------------------------------ state
VARIABLES
  call,             \* the function under call and its arguments
  entry,            \* the arguments as they were when the call was made
  returned,         \* what a helper call returned or raised
  video,            \* the file behind video_path: whether it opens, its frames, its fps
  pc,               \* create_cropped_video: "Init", "Reading", "Done" or "Failed"
  cap,              \* the cv2.VideoCapture: whether it is open, the next frame to read
  frame_index,
  max_frame_index,
  out_frames,
  result,           \* what create_cropped_video returned
  exc,              \* the exception create_cropped_video raised, or "none"
  out_src,          \* for each entry of out_frames, the index of the frame it was built from
  det_access        \* the indices at which detections has been subscripted

vars == <<call, entry, returned, video, pc, cap, frame_index, max_frame_index,
          out_frames, result, exc, out_src, det_access>>

video_vars == <<video, pc, cap, frame_index, max_frame_index, out_frames, result,
                exc, out_src, det_access>>

NotReturned == [done |-> FALSE]
Returned(r) == [done |-> TRUE, res |-> r]

\* ------------------------------------------------------------ the video source
\* frame i of the video: FrameH rows, FrameW columns, every pixel non-black
VideoFrame(i) ==
  MkImage(FrameH, FrameW,
          [rc \in Grid(FrameH, FrameW) |-> 1 + ((i + rc[1] * FrameW + rc[2]) % MaxPix)])

Videos ==
  {[opens |-> TRUE, n |-> n, fps |-> f] : n \in 0 .. MaxFrames, f \in {25, 30}}
    \cup {[opens |-> FALSE, n |-> 0, fps |-> 0]}

VideoBoxes ==
  {Box(x, y, wh[1], wh[2]) :
     x \in {0, 1}, y \in {0, MaxCoord},
     wh \in {<<MaxBoxDim, 0>>, <<MaxBoxDim, 1>>, <<MaxBoxDim, MaxBoxDim>>, <<1, 1>>}}

DetectionEntries == {EmptyDict} \cup VideoBoxes

DetectionLists == UNION {[1 .. m -> DetectionEntries] : m \in 0 .. MaxDet}

DefaultSizes == {<<SizeW - 1, SizeH>>, <<SizeW, SizeH>>}

\* ------------------------------------------------------------ create_cropped_video
NoResult == [kind |-> "none"]

\* return out_frames
ReturnValue(frames) == [kind |-> "list", frames |-> frames]

\* a build that never checks isOpened
OpenRaises_never(c) == FALSE

\* if not cap.isOpened(): raise ValueError(...)
OpenRaises(c) == ~c.opened

\* an off-by-one bound: frame_index > max_frame_index
ReachedBound_strict(i, m) == i > m

\* if frame_index >= max_frame_index: break
ReachedBound(i, m) == i >= m

InitVideo ==
  /\ video \in Videos
  /\ call \in {[fn |-> "create_cropped_video", detections |-> d, darken |-> dk,
                keep_original_timing |-> k, default_size_for_cropped |-> sz] :
                 d \in DetectionLists, dk \in BOOLEAN, k \in BOOLEAN, sz \in DefaultSizes}
  /\ entry = call
  /\ returned = NotReturned
  /\ pc = "Init"
  /\ cap = [opened |-> FALSE, pos |-> 0]
  /\ frame_index = 0
  /\ max_frame_index = 0
  /\ out_frames = << >>
  /\ result = NoResult
  /\ exc = "none"
  /\ out_src = << >>
  /\ det_access = {}

\* cap = cv2.VideoCapture(video_path), the isOpened check and the loop's set-up
Open ==
  /\ pc = "Init"
  /\ LET c == [opened |-> video.opens, pos |-> 0]
     IN /\ cap' = c
        /\ IF OpenRaises(c)
           THEN /\ exc' = "ValueError"
                /\ pc' = "Failed"
                /\ UNCHANGED <<frame_index, max_frame_index, out_frames>>
           ELSE /\ frame_index' = 0
                /\ max_frame_index' = Len(call.detections)
                /\ out_frames' = << >>
                /\ pc' = "Reading"
                /\ exc' = "none"
  /\ UNCHANGED <<call, entry, returned, video, result, out_src, det_access>>

\* cap.read() finds no frame: break, cap.release(), return
EndOfStream ==
  /\ pc = "Reading"
  /\ cap.pos >= video.n
  /\ cap' = [cap EXCEPT !.opened = FALSE]
  /\ result' = ReturnValue(out_frames)
  /\ pc' = "Done"
  /\ UNCHANGED <<call, entry, returned, video, frame_index, max_frame_index,
                 out_frames, exc, out_src, det_access>>

\* a frame is read but frame_index has reached max_frame_index: break,
\* cap.release(), return
DetectionsExhausted ==
  /\ pc = "Reading"
  /\ cap.pos < video.n
  /\ ReachedBound(frame_index, max_frame_index)
  /\ cap' = [opened |-> FALSE, pos |-> cap.pos + 1]
  /\ result' = ReturnValue(out_frames)
  /\ pc' = "Done"
  /\ UNCHANGED <<call, entry, returned, video, frame_index, max_frame_index,
                 out_frames, exc, out_src, det_access>>

\* one pass of the loop body: read a frame, look its detection up, build the
\* face frame and append it unless it is empty; an exception leaves the call
ProcessFrame ==
  /\ pc = "Reading"
  /\ cap.pos < video.n
  /\ ~ReachedBound(frame_index, max_frame_index)
  /\ cap' = [cap EXCEPT !.pos = cap.pos + 1]
  /\ det_access' = det_access \cup {frame_index}
  /\ LET frame == VideoFrame(cap.pos)
         face_frame ==
           IF frame_index + 1 \in DOMAIN call.detections
           THEN create_face_frame(call.detections[frame_index + 1], frame,
                                  call.default_size_for_cropped,
                                  call.keep_original_timing, call.darken)
           ELSE Raise("IndexError")
     IN IF ~face_frame.ok
        THEN /\ exc' = face_frame.exc
             /\ pc' = "Failed"
             /\ UNCHANGED <<frame_index, out_frames, out_src>>
        ELSE /\ IF ArraySize(face_frame.val) # 0
                THEN /\ out_frames' = Append(out_frames, face_frame.val)
                     /\ out_src' = Append(out_src, cap.pos)
                ELSE UNCHANGED <<out_frames, out_src>>
             /\ frame_index' = frame_index + 1
             /\ UNCHANGED <<pc, exc>>
  /\ UNCHANGED <<call, entry, returned, video, max_frame_index, result>>

Next == Open \/ EndOfStream \/ DetectionsExhausted \/ ProcessFrame

Spec == InitVideo /\ [][Next]_vars

\* ------------------------------------------------------------ claims on create_cropped_video
Terminated == pc \in {"Done", "Failed"}

NumDetections == Len(call.detections)

\* C1, as stated: when the video source cannot be opened the call fails from
\* Init with an IOError / SourceUnavailable error, reads no frame and returns
\* no partial output
C1_FailsWithIOError ==
  ~video.opens =>
    /\ pc \in {"Init", "Failed"}
    /\ pc = "Failed" =>
         /\ exc \in {"IOError", "SourceUnavailable"}
         /\ cap.pos = 0 /\ det_access = {}
         /\ result = NoResult /\ out_frames = << >>

\* C1, amended: when the video source cannot be opened the call fails from
\* Init with a ValueError raised to the caller, reads no frame and returns no
\* partial output
C1_FailsWithValueError ==
  ~video.opens =>
    /\ pc \in {"Init", "Failed"}
    /\ pc = "Failed" =>
         /\ exc = "ValueError"
         /\ cap.pos = 0 /\ det_access = {}
         /\ result = NoResult /\ out_frames = << >>

C1_Witness == ~video.opens /\ pc = "Failed" /\ NumDetections > 0

\* C2: on reaching Done the call returns the pair (frame_rate, frames), the
\* frame rate being that of the video source and frames the accumulated
\* output sequence
C2_ReturnsRateAndFrames ==
  pc = "Done" =>
    result = [kind |-> "tuple", fps |-> video.fps, frames |-> out_frames]

\* C3: no execution of the call ends with the video source handle still held,
\* whether it ends at end of stream, at the detection bound, on a failed open
\* or on an error raised while a frame is processed
C3_HandleReleased == Terminated => ~cap.opened

\* C4: with a detection list of length M shorter than the video, detections
\* is never subscripted at M or beyond, only frames 0..M-1 are processed, and
\* the output holds at most M entries in the order of their source frames
C4_DetectionBound ==
  NumDetections < video.n =>
    /\ det_access \subseteq 0 .. NumDetections - 1
    /\ frame_index <= NumDetections
    /\ Len(out_frames) <= NumDetections
    /\ Len(out_src) = Len(out_frames)
    /\ \A k \in DOMAIN out_src : out_src[k] \in 0 .. NumDetections - 1
    /\ \A j, k \in DOMAIN out_src : j < k => out_src[j] < out_src[k]

C4_Witness ==
  /\ pc = "Done"
  /\ NumDetections = MaxDet /\ NumDetections < video.n
  /\ Len(out_frames) = NumDetections
  /\ cap.pos = NumDetections + 1

\* C5: once the source is open no per-frame geometry problem aborts the call:
\* Failed is entered only from Init
C5_FailedOnlyFromInit == [][pc' = "Failed" => pc \in {"Init", "Failed"}]_vars

\* the frames a complete run yields an entry for: every index below
\* min(N, M), less those with an empty detection when timing is not kept
RECURSIVE ExpectedSources(_)
ExpectedSources(k) ==
  IF k = 0 THEN << >>
  ELSE IF call.keep_original_timing \/ DOMAIN call.detections[k] # {}
       THEN Append(ExpectedSources(k - 1), k - 1)
       ELSE ExpectedSources(k - 1)

\* C6: the call appends exactly one entry for every frame index below
\* min(N, M), except none for an empty detection when keep_original_timing is
\* false: once the call has ended its output is that sequence of frames
C6_OneEntryPerFrame ==
  (Terminated /\ video.opens) =>
    /\ out_src = ExpectedSources(Min(video.n, NumDetections))
    /\ Len(out_frames) = Len(out_src)

\* C7: for an empty detection entry with keep_original_timing true the face
\* frame is all zero, with the input frame's dimensions when darken is true
\* and with height frame_h and width frame_w of default_size when it is false
C7_PlaceholderDimensions ==
  \A k \in DOMAIN out_frames :
    (call.keep_original_timing /\ DOMAIN call.detections[out_src[k] + 1] = {}) =>
      /\ out_frames[k].shape =
           IF call.darken
           THEN VideoFrame(out_src[k]).shape
           ELSE <<call.default_size_for_cropped[2], call.default_size_for_cropped[1], 3>>
      /\ \A rc \in DOMAIN out_frames[k].px : out_frames[k].px[rc] = 0

\* ------------------------------------------------------------ helper calls
\* create_cropped_video is not under call
IdleVideo ==
  /\ video = [opens |-> FALSE, n |-> 0, fps |-> 0]
  /\ pc = "Init"
  /\ cap = [opened |-> FALSE, pos |-> 0]
  /\ frame_index = 0
  /\ max_frame_index = 0
  /\ out_frames = << >>
  /\ result = NoResult
  /\ exc = "none"
  /\ out_src = << >>
  /\ det_access = {}

\* the box of the padding example: 100 x 50 at (10, 10)
ExampleBox == Box(10, 10, 100, 50)

PadBoxes ==
  {Box(x, y, w, h) :
     x \in 0 .. MaxPadX, y \in {0, MaxPadX}, w \in 0 .. MaxPadW,
     h \in {0, 7, MaxPadW \div 2}}
    \cup {ExampleBox}

\* 0, 0.1, 0.25, 0.5 and 1.5: on these the double product w * padding_percent
\* truncates as the exact product does, for every width used here
PaddingPercents == {<<0, 1>>, <<1, 10>>, <<1, 4>>, <<1, 2>>, <<3, 2>>}

InitPad ==
  /\ call \in {[fn |-> "calculate_padding", bb_dict |-> b, padding_percent |-> p] :
                 b \in PadBoxes, p \in PaddingPercents}
  /\ entry = call
  /\ returned = NotReturned
  /\ IdleVideo

\* calculate_padding(bb_dict, padding_percent): it reads bb_dict and writes
\* nothing to it
CallCalculatePadding ==
  /\ call.fn = "calculate_padding"
  /\ ~returned.done
  /\ returned' = Returned(Ok(calculate_padding(call.bb_dict, call.padding_percent)))
  /\ UNCHANGED <<call, entry, video_vars>>

SpecPad == InitPad /\ [][CallCalculatePadding]_vars

CenterImages ==
  UNION {{MkImage(h, w, px) : px \in [Grid(h, w) -> {0, 1}]} :
           h \in 0 .. MaxImgH, w \in 0 .. MaxImgW}

CenterSizes == (1 .. SizeW) \X (1 .. SizeH)

InitCenter ==
  /\ call \in {[fn |-> "center_in_frame", cropped_img |-> img, frame_size |-> sz,
                background_color |-> bg] :
                 img \in CenterImages, sz \in CenterSizes, bg \in {0, 2}}
  /\ entry = call
  /\ returned = NotReturned
  /\ IdleVideo

\* center_in_frame(cropped_img, frame_size, background_color): the local name
\* cropped_img is rebound, the caller's image is not written
CallCenterInFrame ==
  /\ call.fn = "center_in_frame"
  /\ ~returned.done
  /\ returned' = Returned(center_in_frame(call.cropped_img, call.frame_size,
                                          call.background_color))
  /\ UNCHANGED <<call, entry, video_vars>>

SpecCenter == InitCenter /\ [][CallCenterInFrame]_vars

\* ------------------------------------------------------------ claims on calculate_padding
PadReturned == call.fn = "calculate_padding" /\ returned.done

\* floor(w * p) for the rational p
FloorOfProduct(w, p) == (w * p[1]) \div p[2]

\* C8: for every box with w, h >= 0 and every p >= 0 the padded box has
\* w' = w + 2*floor(w*p), h' = h + 2*floor(h*p), x' = max(0, x - floor(w*p)),
\* y' = max(0, y - floor(h*p)), so x', y' >= 0, and the input box is unchanged
C8_PaddingFormula ==
  PadReturned =>
    LET b == entry.bb_dict
        p == entry.padding_percent
        r == returned.res.val
    IN /\ returned.res.ok
       /\ r.bb_w = b.bb_w + 2 * FloorOfProduct(b.bb_w, p)
       /\ r.bb_h = b.bb_h + 2 * FloorOfProduct(b.bb_h, p)
       /\ r.bb_x = Max(0, b.bb_x - FloorOfProduct(b.bb_w, p))
       /\ r.bb_y = Max(0, b.bb_y - FloorOfProduct(b.bb_h, p))
       /\ r.bb_x >= 0 /\ r.bb_y >= 0
       /\ call.bb_dict = b

C8_Witness ==
  /\ PadReturned
  /\ entry.bb_dict.bb_x > 0
  /\ FloorOfProduct(entry.bb_dict.bb_w, entry.padding_percent) > entry.bb_dict.bb_x
  /\ FloorOfProduct(entry.bb_dict.bb_h, entry.padding_percent) \in 1 .. entry.bb_dict.bb_y
  /\ returned.res.val.bb_x = 0 /\ returned.res.val.bb_y > 0

PadExampleReturned ==
  /\ PadReturned
  /\ entry.bb_dict = ExampleBox
  /\ entry.padding_percent = <<1, 10>>

\* C9, as stated: padding the 100 x 50 box at (10, 10) by 10% yields
\* (x, y, w, h) = (9, 9, 120, 60)
C9_ExampleAsStated == PadExampleReturned => returned.res.val = Box(9, 9, 120, 60)

\* C9, amended: padding the 100 x 50 box at (10, 10) by 10% yields
\* (x, y, w, h) = (0, 5, 120, 60)
C9_Example == PadExampleReturned => returned.res.val = Box(0, 5, 120, 60)

C9_Witness == PadExampleReturned /\ returned.res.ok

\* ------------------------------------------------------------ claims on center_in_frame
CenterReturned == call.fn = "center_in_frame" /\ returned.done

\* C10: center_in_frame always returns a canvas of exactly frame_size; an
\* image that already fits is not resized: its pixels stand unchanged in the
\* rectangle at x_offset = (frame_w - w)//2, y_offset = (frame_h - h)//2 and
\* every other pixel of the canvas is background_color
C10_CanvasAndCentering ==
  CenterReturned =>
    LET img == entry.cropped_img
        h == img.shape[1]
        w == img.shape[2]
        frame_w == entry.frame_size[1]
        frame_h == entry.frame_size[2]
        x_offset == (frame_w - w) \div 2
        y_offset == (frame_h - h) \div 2
        r == returned.res
    IN /\ r.ok
       /\ r.val.shape = <<frame_h, frame_w, 3>>
       /\ (w <= frame_w /\ h <= frame_h) =>
            \A rc \in Grid(frame_h, frame_w) :
              r.val.px[rc] =
                IF /\ y_offset <= rc[1] /\ rc[1] < y_offset + h
                   /\ x_offset <= rc[2] /\ rc[2] < x_offset + w
                THEN img.px[<<rc[1] - y_offset, rc[2] - x_offset>>]
                ELSE entry.background_color

\* ------------------------------------------------------------ resize_to_fit under call
InitFit ==
  /\ call \in {[fn |-> "resize_to_fit", img |-> img, frame_size |-> sz] :
                 img \in CenterImages, sz \in CenterSizes}
  /\ entry = call
  /\ returned = NotReturned
  /\ IdleVideo

\* resize_to_fit(img, frame_size): img is read, not written
CallResizeToFit ==
  /\ call.fn = "resize_to_fit"
  /\ ~returned.done
  /\ returned' = Returned(resize_to_fit(call.img, call.frame_size))
  /\ UNCHANGED <<call, entry, video_vars>>

SpecFit == InitFit /\ [][CallResizeToFit]_vars

\* ------------------------------------------------------------ claims on resize_to_fit
FitReturned == call.fn = "resize_to_fit" /\ returned.done

\* the image exceeds the frame in width or height and has rows
FitExceeds ==
  /\ entry.img.shape[1] > 0
  /\ \/ entry.img.shape[2] > entry.frame_size[1]
     \/ entry.img.shape[1] > entry.frame_size[2]

\* C11: for every image with h > 0 that exceeds the frame in width or height,
\* resize_to_fit yields an image of new_w <= frame_w columns and
\* new_h <= frame_h rows, with new_w = frame_w when w/h > frame_w/frame_h and
\* new_h = frame_h otherwise, the other side being the ratio-preserving one
\* to within a pixel of truncation
C11_FitsAndKeepsRatio ==
  (FitReturned /\ FitExceeds) =>
    LET h == entry.img.shape[1]
        w == entry.img.shape[2]
        frame_w == entry.frame_size[1]
        frame_h == entry.frame_size[2]
        r == returned.res
        new_h == r.val.shape[1]
        new_w == r.val.shape[2]
    IN /\ r.ok
       /\ new_w <= frame_w /\ new_h <= frame_h
       /\ IF w * frame_h > frame_w * h
          THEN /\ new_w = frame_w
               /\ new_h * w <= frame_w * h /\ frame_w * h <= (new_h + 1) * w
          ELSE /\ new_h = frame_h
               /\ new_w * h <= frame_h * w /\ frame_h * w <= (new_w + 1) * h

\* ------------------------------------------------------------ blacken_outside_bounding_box under call
BlackenFrames ==
  UNION {{MkImage(h, w, px) : px \in [Grid(h, w) -> {0, 1}]} :
           h \in 1 .. MaxImgH, w \in 1 .. MaxImgW}

\* integer origins on both sides of 0, sides from 0 up
BlackenBoxes ==
  {Box(x, y, w, h) :
     x \in -MaxCoord .. MaxCoord, y \in -1 .. 1,
     w \in 0 .. MaxBoxDim, h \in {0, 1, MaxBoxDim}}

InitBlacken ==
  /\ call \in {[fn |-> "blacken_outside_bounding_box", frame |-> f, bb_dict |-> b] :
                 f \in BlackenFrames, b \in BlackenBoxes}
  /\ entry = call
  /\ returned = NotReturned
  /\ IdleVideo

\* blacken_outside_bounding_box(frame, bb_dict): the copy goes into mask,
\* frame is only read
CallBlacken ==
  /\ call.fn = "blacken_outside_bounding_box"
  /\ ~returned.done
  /\ returned' = Returned(Ok(blacken_outside_bounding_box(call.frame, call.bb_dict)))
  /\ UNCHANGED <<call, entry, video_vars>>

SpecBlacken == InitBlacken /\ [][CallBlacken]_vars

\* ------------------------------------------------------------ claims on blacken_outside_bounding_box
BlackenReturned == call.fn = "blacken_outside_bounding_box" /\ returned.done

\* the pixel at row rc[1], column rc[2] lies in the rectangle of bb_dict
InsideBox(rc, bb_dict) ==
  /\ bb_dict.bb_y <= rc[1] /\ rc[1] < bb_dict.bb_y + bb_dict.bb_h
  /\ bb_dict.bb_x <= rc[2] /\ rc[2] < bb_dict.bb_x + bb_dict.bb_w

\* C12: for every frame and every box with integer x, y and w, h >= 0 the
\* result has the frame's dimensions, is zero at every pixel outside the box
\* and equals the frame at every pixel of the frame inside the box; the input
\* frame is unchanged
C12_MaskedOutsideBox ==
  BlackenReturned =>
    LET frame == entry.frame
        r == returned.res
    IN /\ r.ok
       /\ r.val.shape = frame.shape
       /\ \A rc \in Grid(frame.shape[1], frame.shape[2]) :
            r.val.px[rc] = IF InsideBox(rc, entry.bb_dict) THEN frame.px[rc] ELSE 0
       /\ call.frame = frame

\* ------------------------------------------------------------ output dimensions of one call
\* C13: within one create_cropped_video call with darken false every frame of
\* the output has frame_h rows and frame_w columns of
\* default_size_for_cropped, whether cropped and centered from a detection or
\* a placeholder for an empty detection, non-square sizes included
C13_UniformOutputSize ==
  (call.fn = "create_cropped_video" /\ ~call.darken) =>
    \A k \in DOMAIN out_frames :
      out_frames[k].shape =
        <<call.default_size_for_cropped[2], call.default_size_for_cropped[1], 3>>
====
